---- MODULE Spec2Model ----
(***************************************************************************)
(* Model of kernel/arch/cpu.c (MSEOS): the boot-time CPUID probing pass    *)
(* cpu_init and the decoders it calls (get_cpu_temperature, brandname,     *)
(* do_amd, l2_cache).                                                      *)
(*                                                                         *)
(* A uint32_t is a tuple of four bytes, least significant first (the x86   *)
(* memory layout tool_memcpy sees); a uint64_t is a tuple of eight bytes.  *)
(* W(b3, b2, b1, b0) writes the word 0xb3b2b1b0.                           *)
(***************************************************************************)
EXTENDS Integers, Sequences, FiniteSets, TLC

\* Number of consecutive calls of cpu_init a behaviour may make.
MaxPasses == 2

\* Content of storage that was declared and never written.
Uninit == -1

W(b3, b2, b1, b0) == <<b0, b1, b2, b3>>

Zero == W(0, 0, 0, 0)

UWord == <<Uninit, Uninit, Uninit, Uninit>>

\* (w >> k) & 1
Bit(w, k) == (w[(k \div 8) + 1] \div (2 ^ (k % 8))) % 2

\* Unsigned a >= b, decided from the most significant byte down.
RECURSIVE GEFrom(_, _, _)
GEFrom(a, b, i) ==
    IF i = 0 THEN TRUE
    ELSE IF a[i] > b[i] THEN TRUE
    ELSE IF a[i] < b[i] THEN FALSE
    ELSE GEFrom(a, b, i - 1)

WordGE(a, b) == GEFrom(a, b, 4)

WordGT(a, b) == WordGE(a, b) /\ a # b

\* A small unsigned value as a word.
ToWord(n) == <<n % 256, (n \div 256) % 256, (n \div 65536) % 256, 0>>

\* The bytes of an array of words, in memory order.
Bytes(ws) == [i \in 1..(4 * Len(ws)) |-> ws[((i - 1) \div 4) + 1][((i - 1) % 4) + 1]]

\* tool_memcpy(dst, src, n): the first n bytes of dst become those of src.
Memcpy(dst, src, n) == [i \in 1..Len(dst) |-> IF i <= n THEN src[i] ELSE dst[i]]

\* A char buffer of n bytes, none of them written.
UBuf(n) == [i \in 1..n |-> Uninit]

(***************************************************************************)
(* Selectors and register numbers used by the code.                        *)
(***************************************************************************)
LEAF_0         == W(0, 0, 0, 0)
LEAF_1         == W(0, 0, 0, 1)
LEAF_80000000  == W(\h80, 0, 0, 0)
LEAF_80000001  == W(\h80, 0, 0, 1)
LEAF_80000002  == W(\h80, 0, 0, 2)
LEAF_80000003  == W(\h80, 0, 0, 3)
LEAF_80000004  == W(\h80, 0, 0, 4)
LEAF_80000006  == W(\h80, 0, 0, 6)
LEAF_80000007  == W(\h80, 0, 0, 7)
LEAF_8FFFFFFF  == W(\h8F, \hFF, \hFF, \hFF)
LEAF_C0000000  == W(\hC0, 0, 0, 0)
MSR_19C        == W(0, 0, \h01, \h9C)
AMD_SIGNATURE  == W(\h68, \h74, \h75, \h41)

Leaves ==
    { LEAF_0, LEAF_1, LEAF_80000000, LEAF_80000001, LEAF_80000002,
      LEAF_80000003, LEAF_80000004, LEAF_80000006, LEAF_80000007,
      LEAF_8FFFFFFF, LEAF_C0000000 }

Regs(a, b, c, d) == [eax |-> a, ebx |-> b, ecx |-> c, edx |-> d]

URegs == Regs(UWord, UWord, UWord, UWord)

(***************************************************************************)
(* The processors the pass is run on.  Each is fixed for a behaviour:      *)
(* every leaf answers every query of it with the same four registers.      *)
(***************************************************************************)
\* Leaf 1: EAX family/model, ECX and EDX feature bits.
Leaf1Outputs ==
    { Regs(W(0, \h80, \h0F, \h12), Zero, Zero, Zero),
      Regs(W(0, \h80, \h0F, \h12), Zero, Zero, W(0, 0, 0, 1)),
      Regs(W(0, \h80, \h0F, \h12), Zero, Zero, W(\h02, \h80, 0, 0)),
      Regs(W(0, \h80, \h0F, \h12), Zero, W(\h10, 0, 0, 0), W(0, \h40, 0, 0)),
      Regs(W(0, \h03, \h06, \hA9), Zero, W(\h44, 0, 0, 0), Zero),
      Regs(W(0, \h03, \h06, \hA9), Zero, W(\h50, 0, 0, 0), W(\h20, \h40, 0, 1)),
      Regs(W(0, \h03, \h06, \hA9), Zero, W(\hEF, \hFF, \hFF, \hFF),
           W(\hFF, \hBF, \hFF, \hFF)),
      Regs(W(\hFF, \hFF, \hFF, \hFF), Zero, W(\hFF, \hFF, \hFF, \hFF),
           W(\hFF, \hFF, \hFF, \hFF)) }

\* Leaf 0: EAX maximum standard leaf, EBX:EDX:ECX the vendor bytes.
Leaf0Outputs ==
    { \* "AuthenticAMD"
      Regs(W(0, 0, 0, \h0D), W(\h68, \h74, \h75, \h41), W(\h44, \h4D, \h41, \h63),
           W(\h69, \h74, \h6E, \h65)),
      \* "GenuineIntel"
      Regs(W(0, 0, 0, \h16), W(\h75, \h6E, \h65, \h47), W(\h6C, \h65, \h74, \h6E),
           W(\h49, \h65, \h6E, \h69)),
      \* the signature with its bytes reversed
      Regs(W(0, 0, 0, \h0D), W(\h41, \h75, \h74, \h68), W(\h44, \h4D, \h41, \h63),
           W(\h69, \h74, \h6E, \h65)),
      \* the signature in every register but EBX
      Regs(W(\h68, \h74, \h75, \h41), W(\h75, \h6E, \h65, \h47),
           W(\h68, \h74, \h75, \h41), W(\h68, \h74, \h75, \h41)),
      \* the signature in EBX, zero elsewhere
      Regs(Zero, W(\h68, \h74, \h75, \h41), Zero, Zero) }

\* Leaf 0x80000000: EAX maximum extended leaf.
ExtMaxOutputs ==
    { Regs(W(\h80, 0, 0, \h1F), Zero, Zero, Zero),
      Regs(W(\h80, 0, 0, \h04), Zero, Zero, Zero),
      Regs(W(\h80, 0, 0, \h03), Zero, Zero, Zero),
      Regs(W(0, 0, 0, \h05), Zero, Zero, Zero),
      Regs(W(\h7F, \hFF, \hFF, \hFF), Zero, Zero, Zero) }

\* Leaf 0x80000001: ECX and EDX extended feature bits.
Ext1Outputs ==
    { Regs(Zero, Zero, Zero, Zero),
      Regs(Zero, Zero, W(0, 0, 0, \hC0), W(\h20, 0, \h0E, \hE0)),
      Regs(Zero, Zero, W(0, 0, 0, \h40), W(\hFF, \hFF, \hFF, \hDF)) }

\* Leaves 0x80000007, 0xC0000000, 0x80000006, 0x80000002..4, 0x8FFFFFFF
\* and the two halves of MSR 0x19C.
Rest(pm, c0, l2, b2, b3, b4, eggs, lo, hi) ==
    [pm |-> pm, c0 |-> c0, l2 |-> l2, b2 |-> b2, b3 |-> b3, b4 |-> b4,
     eggs |-> eggs, lo |-> lo, hi |-> hi]

AAAA == W(\h41, \h41, \h41, \h41)

RestOutputs ==
    { Rest(Regs(Zero, W(0, 0, 0, 3), Zero, W(0, 0, 0, \h79)),
           Regs(W(\hC0, 0, 0, 4), Zero, Zero, Zero),
           Regs(Zero, Zero, W(\h02, 0, \h20, \h40), Zero),
           Regs(AAAA, AAAA, AAAA, AAAA), Regs(AAAA, AAAA, AAAA, AAAA),
           Regs(AAAA, AAAA, AAAA, AAAA),
           \* "IT'S HAMMER TIME"
           Regs(W(\h53, \h27, \h54, \h49), W(\h4D, \h41, \h48, \h20),
                W(\h20, \h52, \h45, \h4D), W(\h45, \h4D, \h49, \h54)),
           W(\h25, 0, 0, 0), Zero),
      Rest(Regs(Zero, Zero, Zero, Zero),
           Regs(Zero, Zero, Zero, Zero),
           Regs(Zero, Zero, W(\hFF, \hFF, \hFF, \hFF), Zero),
           Regs(Zero, Zero, Zero, Zero), Regs(Zero, Zero, Zero, Zero),
           Regs(Zero, Zero, Zero, Zero),
           Regs(Zero, Zero, Zero, Zero),
           W(0, \hFF, \hFF, \hFF), Zero),
      Rest(Regs(Zero, W(0, 0, 0, 2), Zero, W(0, 0, 0, 1)),
           Regs(W(\hC0, 0, 0, 0), Zero, Zero, Zero),
           Regs(Zero, Zero, W(0, 0, \h8F, 0), Zero),
           Regs(AAAA, W(\h41, 0, \h41, \h41), AAAA, AAAA),
           Regs(AAAA, AAAA, AAAA, AAAA), Regs(AAAA, AAAA, AAAA, Zero),
           Regs(AAAA, W(\h41, \h41, 0, \h41), AAAA, AAAA),
           W(\hFF, \hFF, \hFF, \hFF), W(0, 0, 0, 1)),
      Rest(Regs(Zero, Zero, Zero, W(0, 0, 0, \h08)),
           Regs(W(\hFF, \hFF, \hFF, \hFF), Zero, Zero, Zero),
           Regs(Zero, Zero, W(\h01, 0, \h70, \h40), Zero),
           Regs(AAAA, AAAA, AAAA, AAAA), Regs(AAAA, AAAA, AAAA, AAAA),
           Regs(AAAA, AAAA, AAAA, AAAA),
           Regs(AAAA, AAAA, AAAA, Zero),
           Zero, W(\hFF, \hFF, \hFF, \hFF)),
      Rest(Regs(Zero, W(0, 0, 0, 1), Zero, W(0, 0, 0, \h30)),
           Regs(W(\h80, 0, 0, 0), Zero, Zero, Zero),
           Regs(W(\hFF, \hFF, \hFF, \hFF), W(\hFF, \hFF, \hFF, \hFF),
                W(\h12, \h34, \h56, \h78), W(\hFF, \hFF, \hFF, \hFF)),
           Regs(AAAA, AAAA, AAAA, AAAA), Regs(AAAA, AAAA, AAAA, AAAA),
           Regs(AAAA, AAAA, AAAA, AAAA),
           Regs(Zero, AAAA, AAAA, AAAA),
           W(\h88, \h44, \h22, \h11), W(0, 0, \h01, 0)) }

Processor(l0, l1, emax, e1, rest) ==
    [leaf \in Leaves |->
        CASE leaf = LEAF_0        -> l0
          [] leaf = LEAF_1        -> l1
          [] leaf = LEAF_80000000 -> emax
          [] leaf = LEAF_80000001 -> e1
          [] leaf = LEAF_80000002 -> rest.b2
          [] leaf = LEAF_80000003 -> rest.b3
          [] leaf = LEAF_80000004 -> rest.b4
          [] leaf = LEAF_80000006 -> rest.l2
          [] leaf = LEAF_80000007 -> rest.pm
          [] leaf = LEAF_8FFFFFFF -> rest.eggs
          [] leaf = LEAF_C0000000 -> rest.c0]

VARIABLES
    cpu,                \* the processor: selector -> the registers cpuid returns
    msr,                \* the processor: the halves rdmsr returns for 0x19C
    acpi_msrs_support,  \* the five static flags
    mmx_support,
    sse2_support,
    avx_support,
    rdrnd_support,
    pc,                 \* the line cpu_init (or a callee) executes next
    pass,               \* which call of cpu_init is running
    regs,               \* cpu_init: eax, ebx, ecx, edx
    therm,              \* get_cpu_temperature: lo, hi, temp, temperature
    bn,                 \* brandname: its locals
    amd,                \* do_amd: its locals
    l2,                 \* l2_cache: its locals
    trace,              \* this pass's cpuid, rdmsr and LOG calls, in order
    history             \* the flags as each finished pass left them

flags == <<acpi_msrs_support, mmx_support, sse2_support, avx_support, rdrnd_support>>

frames == <<regs, therm, bn, amd, l2>>

vars == <<cpu, msr, flags, pc, pass, frames, trace, history>>

(***************************************************************************)
(* What a call leaves in the trace.                                        *)
(***************************************************************************)
Event(op, w, msg, args, buf, str, read) ==
    [op |-> op, w |-> w, msg |-> msg, args |-> args, buf |-> buf, str |-> str,
     read |-> read]

CpuidEv(leaf) == Event("cpuid", leaf, "", <<>>, <<>>, <<>>, "ok")

RdmsrEv(reg) == Event("rdmsr", reg, "", <<>>, <<>>, <<>>, "ok")

\* LOG(msg, args...) with numeric arguments only.
LogEv(msg, args) == Event("LOG", Zero, msg, args, <<>>, <<>>, "ok")

\* The index at which a %s conversion stops reading buf: the first byte that
\* is zero or was never written, or one past the buffer.
StopIndex(buf) ==
    IF \E i \in 1..Len(buf) : buf[i] = 0 \/ buf[i] = Uninit
    THEN CHOOSE i \in 1..Len(buf) :
            /\ buf[i] = 0 \/ buf[i] = Uninit
            /\ \A j \in 1..(i - 1) : buf[j] # 0 /\ buf[j] # Uninit
    ELSE Len(buf) + 1

\* What the sink can do with LOG(msg, buf) for a %s conversion.  Reading a
\* byte that was never written is undefined: it may read as zero (the
\* string ends there) or as non-zero (the sink runs on past it).
SinkReads(buf) ==
    LET k == StopIndex(buf)
        s == SubSeq(buf, 1, k - 1)
    IN  IF k <= Len(buf) /\ buf[k] = 0
        THEN { [str |-> s, read |-> "ok"] }
        ELSE { [str |-> s, read |-> "uninit_zero"],
               [str |-> s, read |-> "uninit_nonzero"] }

LogStr(msg, buf, r) == Event("LOG", Zero, msg, <<>>, buf, r.str, r.read)

LogIf(c, msg) == IF c THEN <<LogEv(msg, <<>>)>> ELSE <<>>

\* The calls one cpuid(leaf, ...) makes of the instruction.
QueryTwice(leaf) == <<CpuidEv(leaf), CpuidEv(leaf)>>

Query(leaf) == <<CpuidEv(leaf)>>

(***************************************************************************)
(* The decoders.                                                           *)
(***************************************************************************)
\* if (bit) flag = true;
SetSupportToggle(flag, bit) == IF bit = 1 THEN ~flag ELSE flag

SetSupport(flag, bit) == IF bit = 1 THEN TRUE ELSE flag

ThermalBit24(edx) == Bit(edx, 24)

ThermalBit(edx) == Bit(edx, 22)

MmxBit(edx) == Bit(edx, 23)

Sse2Bit(edx) == Bit(edx, 25)

AvxBit(ecx) == Bit(ecx, 28)

RdrndBit(ecx) == Bit(ecx, 30)

\* Long division of a little-endian byte string by d < 2^23, from the most
\* significant byte down; rem is the remainder carried into byte i.
RECURSIVE DivFrom(_, _, _, _)
DivFrom(v, d, i, rem) ==
    IF i = 0 THEN <<>>
    ELSE LET cur == rem * 256 + v[i]
         IN  Append(DivFrom(v, d, i - 1, cur % d), cur \div d)

Div64(v, d) == DivFrom(v, d, 8, 0)

\* v >> 16 on a uint64_t
Shr16(v) == SubSeq(v, 3, 8) \o <<0, 0>>

\* get_cpu_temperature without the cast: hi << 32 is lost, temp is lo alone.
TemperatureTruncated(lo, hi) ==
    LET temp == lo \o Zero
    IN  [lo |-> lo, hi |-> hi, temp |-> temp,
         temperature |-> Div64(Shr16(temp), 256)]

\* get_cpu_temperature: temp = ((uint64_t)hi << 32) | lo;
\* temperature = (temp >> 16) / 256.
Temperature(lo, hi) ==
    LET temp == lo \o hi
    IN  [lo |-> lo, hi |-> hi, temp |-> temp,
         temperature |-> Div64(Shr16(temp), 256)]

\* l2_cache with the associativity masked by 0x0F.
L2DecodeWideMask(r) ==
    [r |-> r,
     lsize |-> r.ecx[1],
     assoc |-> (r.ecx[2] \div 16) % 16,
     cache |-> r.ecx[3] + 256 * r.ecx[4]]

\* l2_cache: lsize = ecx & 0xFF; assoc = (ecx >> 12) & 0x07;
\* cache = (ecx >> 16) & 0xFFFF.
L2Decode(r) ==
    [r |-> r,
     lsize |-> r.ecx[1],
     assoc |-> (r.ecx[2] \div 16) % 8,
     cache |-> r.ecx[3] + 256 * r.ecx[4]]

\* eax >= 0x80000004 on int32_t: the sign bit orders the wrong way round.
BrandSupportedSigned(eax) ==
    IF (eax[4] >= 128) = (LEAF_80000004[4] >= 128)
    THEN WordGE(eax, LEAF_80000004)
    ELSE eax[4] < 128

\* eax >= 0x80000004
BrandSupported(eax) == WordGE(eax, LEAF_80000004)

\* manufacturer[1] == 0x68747541
IsAmdWrongIndex(manufacturer) == manufacturer[2] = AMD_SIGNATURE

\* manufacturer[0] == 0x68747541
IsAmd(manufacturer) == manufacturer[1] = AMD_SIGNATURE

\* The static flags as the Feature Flag State names them.
FeatureFlagState ==
    [thermal_msr |-> acpi_msrs_support, mmx |-> mmx_support,
     sse2 |-> sse2_support, avx |-> avx_support, rdrand |-> rdrnd_support]

(***************************************************************************)
(* The frames of the functions before they run.                            *)
(***************************************************************************)
therm0 == [lo |-> UWord, hi |-> UWord, temp |-> UBuf(8), temperature |-> UBuf(8)]

bn0 ==
    [r |-> URegs, brand_string |-> UBuf(49), brand |-> [i \in 1..12 |-> UWord],
     manufacturer |-> [i \in 1..4 |-> UWord], manufacturer_string |-> UBuf(13)]

amd0 ==
    [r |-> URegs, eggs |-> [i \in 1..4 |-> UWord], eggs_string |-> UBuf(13),
     cpu_model |-> Uninit, cpu_family |-> Uninit]

l20 == [r |-> URegs, lsize |-> Uninit, assoc |-> Uninit, cache |-> Uninit]

Init ==
    /\ \E l0 \in Leaf0Outputs, l1 \in Leaf1Outputs, emax \in ExtMaxOutputs,
          e1 \in Ext1Outputs, rest \in RestOutputs :
            /\ cpu = Processor(l0, l1, emax, e1, rest)
            /\ msr = [lo |-> rest.lo, hi |-> rest.hi]
    /\ acpi_msrs_support = FALSE
    /\ mmx_support = FALSE
    /\ sse2_support = FALSE
    /\ avx_support = FALSE
    /\ rdrnd_support = FALSE
    /\ pc = "L125"
    /\ pass = 1
    /\ regs = URegs
    /\ therm = therm0
    /\ bn = bn0
    /\ amd = amd0
    /\ l2 = l20
    /\ trace = <<>>
    /\ history = <<>>

hw == <<cpu, msr>>

(***************************************************************************)
(* cpu_init, one action per cpuid call and the tests that follow it.       *)
(***************************************************************************)
\* line 125: cpuid(1, &eax, &ebx, &ecx, &edx)
CpuInit_Cpuid1 ==
    /\ pc = "L125"
    /\ regs' = cpu[LEAF_1]
    /\ trace' = trace \o Query(LEAF_1)
    /\ pc' = "L127"
    /\ UNCHANGED <<hw, flags, pass, therm, bn, amd, l2, history>>

\* lines 127-131: the FPU test, the thermal test up to the call of
\* get_cpu_temperature
CpuInit_FpuThermal ==
    /\ pc = "L127"
    /\ acpi_msrs_support' = SetSupport(acpi_msrs_support, ThermalBit(regs.edx))
    /\ trace' = trace \o LogIf(Bit(regs.edx, 0) = 1, "FPU(x87)")
                      \o LogIf(ThermalBit(regs.edx) = 1, "ACPI thermal MSRs")
    /\ pc' = IF ThermalBit(regs.edx) = 1 THEN "L132" ELSE "L135"
    /\ UNCHANGED <<hw, mmx_support, sse2_support, avx_support, rdrnd_support,
                   pass, frames, history>>

\* line 132 and lines 49-61: get_cpu_temperature and the LOG of its result
GetCpuTemperature ==
    /\ pc = "L132"
    /\ therm' = Temperature(msr.lo, msr.hi)
    /\ trace' = trace \o <<RdmsrEv(MSR_19C),
                           LogEv("Temperature", <<therm'.temperature>>)>>
    /\ pc' = "L135"
    /\ UNCHANGED <<hw, flags, pass, regs, bn, amd, l2, history>>

\* lines 135-144
CpuInit_MmxSse2 ==
    /\ pc = "L135"
    /\ mmx_support' = SetSupport(mmx_support, MmxBit(regs.edx))
    /\ sse2_support' = SetSupport(sse2_support, Sse2Bit(regs.edx))
    /\ trace' = trace \o LogIf(MmxBit(regs.edx) = 1, "MMX")
                      \o LogIf(Sse2Bit(regs.edx) = 1, "SSE2")
    /\ pc' = "L146"
    /\ UNCHANGED <<hw, acpi_msrs_support, avx_support, rdrnd_support, pass,
                   frames, history>>

\* line 146: cpuid(1, ...) again
CpuInit_Cpuid1Again ==
    /\ pc = "L146"
    /\ regs' = cpu[LEAF_1]
    /\ trace' = trace \o Query(LEAF_1)
    /\ pc' = "L147"
    /\ UNCHANGED <<hw, flags, pass, therm, bn, amd, l2, history>>

\* lines 147-161
CpuInit_EcxFlags ==
    /\ pc = "L147"
    /\ avx_support' = SetSupport(avx_support, AvxBit(regs.ecx))
    /\ rdrnd_support' = SetSupport(rdrnd_support, RdrndBit(regs.ecx))
    /\ trace' = trace \o LogIf(Bit(regs.edx, 29) = 1, "Thermal monitor")
                      \o LogIf(AvxBit(regs.ecx) = 1, "AVX")
                      \o LogIf(Bit(regs.ecx, 26) = 1, "XSAVE")
                      \o LogIf(RdrndBit(regs.ecx) = 1, "RDRND")
    /\ pc' = "L163"
    /\ UNCHANGED <<hw, acpi_msrs_support, mmx_support, sse2_support, pass,
                   frames, history>>

\* lines 163-164: cpuid(0x80000000, ...) and the LOG of eax
CpuInit_ExtMax ==
    /\ pc = "L163"
    /\ regs' = cpu[LEAF_80000000]
    /\ trace' = trace \o Query(LEAF_80000000)
                      \o <<LogEv("Max CPUID", <<regs'.eax, regs'.eax>>)>>
    /\ pc' = "L166"
    /\ UNCHANGED <<hw, flags, pass, therm, bn, amd, l2, history>>

\* lines 166-197: cpuid(0x80000001, ...) and its tests
CpuInit_ExtFeatures ==
    /\ pc = "L166"
    /\ regs' = cpu[LEAF_80000001]
    /\ trace' = trace \o Query(LEAF_80000001)
                      \o LogIf(Bit(regs'.edx, 5) = 1, "MSR")
                      \o LogIf(Bit(regs'.edx, 6) = 1, "PAE")
                      \o LogIf(Bit(regs'.edx, 7) = 1, "MCE")
                      \o LogIf(Bit(regs'.edx, 9) = 1, "APIC")
                      \o (IF Bit(regs'.edx, 10) = 1
                          THEN <<Event("fb_printf", Zero, "SYSCALL/SYSRET (AMD)",
                                       <<>>, <<>>, <<>>, "ok")>>
                          ELSE <<>>)
                      \o LogIf(Bit(regs'.edx, 11) = 1, "SYSCALL/SYSRET")
                      \o LogIf(Bit(regs'.edx, 29) = 1, "AMD64")
                      \o LogIf(Bit(regs'.ecx, 6) = 1, "SSE4a")
                      \o LogIf(Bit(regs'.ecx, 7) = 1, "Misaligned SSE")
    /\ pc' = "L199"
    /\ UNCHANGED <<hw, flags, pass, therm, bn, amd, l2, history>>

\* lines 199-217: cpuid(0x80000007, ...) and its tests
CpuInit_PowerMgmt ==
    /\ pc = "L199"
    /\ regs' = cpu[LEAF_80000007]
    /\ trace' = trace \o Query(LEAF_80000007)
                      \o LogIf(Bit(regs'.ebx, 0) = 1, "MCA overflow recovery")
                      \o LogIf(Bit(regs'.ebx, 1) = 1, "SUCCOR")
                      \o LogIf(Bit(regs'.edx, 0) = 1, "Temperature sensor")
                      \o LogIf(Bit(regs'.edx, 3) = 1, "Thermal trip")
                      \o LogIf(Bit(regs'.edx, 4) = 1, "HTC")
                      \o LogIf(Bit(regs'.edx, 5) = 1, "STC")
                      \o LogIf(Bit(regs'.edx, 6) = 1, "100 MHz steps")
    /\ pc' = "L221"
    /\ UNCHANGED <<hw, flags, pass, therm, bn, amd, l2, history>>

\* lines 221-222: cpuid(0xC0000000, ...); line 224 calls brandname
CpuInit_C0 ==
    /\ pc = "L221"
    /\ regs' = cpu[LEAF_C0000000]
    /\ trace' = trace \o Query(LEAF_C0000000)
                      \o (IF WordGT(regs'.eax, LEAF_C0000000)
                          THEN <<LogEv("0xC0000000 [EAX]", <<regs'.eax, regs'.eax>>)>>
                          ELSE <<>>)
    /\ pc' = "L102"
    /\ UNCHANGED <<hw, flags, pass, therm, bn, amd, l2, history>>

(***************************************************************************)
(* brandname                                                               *)
(***************************************************************************)
\* lines 102-109: the vendor string
Brandname_Vendor ==
    /\ pc = "L102"
    /\ LET r == cpu[LEAF_0]
           \* cpuid(0, &manufacturer[3], &manufacturer[0], &manufacturer[2],
           \*       &manufacturer[1])
           manufacturer == <<r.ebx, r.edx, r.ecx, r.eax>>
           copied == Memcpy(bn.manufacturer_string, Bytes(manufacturer), 12)
           manufacturer_string == [copied EXCEPT ![13] = 0]
       IN  /\ bn' = [bn EXCEPT !.manufacturer = manufacturer,
                               !.manufacturer_string = manufacturer_string,
                               !.brand_string = [bn.brand_string EXCEPT ![49] = 0]]
           /\ \E rd \in SinkReads(manufacturer_string) :
                trace' = trace \o Query(LEAF_0)
                               \o <<LogStr("manufacturer", manufacturer_string, rd)>>
    /\ pc' = "L111"
    /\ UNCHANGED <<hw, flags, pass, regs, therm, amd, l2, history>>

\* lines 111-112: cpuid(0x80000000, ...) and the test of eax
Brandname_ExtMax ==
    /\ pc = "L111"
    /\ bn' = [bn EXCEPT !.r = cpu[LEAF_80000000]]
    /\ trace' = trace \o Query(LEAF_80000000)
    /\ pc' = IF BrandSupported(bn'.r.eax) THEN "L113" ELSE "L120"
    /\ UNCHANGED <<hw, flags, pass, regs, therm, amd, l2, history>>

\* lines 113-117: the brand string
Brandname_Brand ==
    /\ pc = "L113"
    /\ LET b2 == cpu[LEAF_80000002]
           b3 == cpu[LEAF_80000003]
           b4 == cpu[LEAF_80000004]
           brand == <<b2.eax, b2.ebx, b2.ecx, b2.edx, b3.eax, b3.ebx, b3.ecx,
                      b3.edx, b4.eax, b4.ebx, b4.ecx, b4.edx>>
           brand_string == Memcpy(bn.brand_string, Bytes(brand), 48)
       IN  /\ bn' = [bn EXCEPT !.brand = brand, !.brand_string = brand_string]
           /\ \E rd \in SinkReads(brand_string) :
                trace' = trace \o Query(LEAF_80000002) \o Query(LEAF_80000003)
                               \o Query(LEAF_80000004)
                               \o <<LogStr("0x80000002:0x80000004", brand_string, rd)>>
    /\ pc' = "L120"
    /\ UNCHANGED <<hw, flags, pass, regs, therm, amd, l2, history>>

\* line 120: the vendor test; line 225 (l2_cache) follows brandname
Brandname_VendorTest ==
    /\ pc = "L120"
    /\ pc' = IF IsAmd(bn.manufacturer) THEN "L83" ELSE "L67"
    /\ UNCHANGED <<hw, flags, pass, frames, trace, history>>

\* lines 83-92: do_amd
DoAmd ==
    /\ pc = "L83"
    /\ LET e == cpu[LEAF_8FFFFFFF]
           eggs == <<e.eax, e.ebx, e.ecx, e.edx>>
           eggs_string == Memcpy(amd.eggs_string, Bytes(eggs), 12)
           r == cpu[LEAF_1]
           cpu_model == (r.eax[1] \div 16) % 16
           cpu_family == r.eax[2] % 16
       IN  /\ amd' = [r |-> r, eggs |-> eggs, eggs_string |-> eggs_string,
                      cpu_model |-> cpu_model, cpu_family |-> cpu_family]
           /\ \E rd \in SinkReads(eggs_string) :
                trace' = trace \o Query(LEAF_8FFFFFFF) \o Query(LEAF_1)
                               \o <<LogStr("AMD, 0x8FFFFFFF", eggs_string, rd),
                                    LogEv("cpu_model", <<ToWord(cpu_model)>>),
                                    LogEv("cpu_family", <<ToWord(cpu_family)>>)>>
    /\ pc' = "L67"
    /\ UNCHANGED <<hw, flags, pass, regs, therm, bn, l2, history>>

\* lines 67-73: l2_cache; cpu_init returns after it
L2Cache ==
    /\ pc = "L67"
    /\ l2' = L2Decode(cpu[LEAF_80000006])
    /\ trace' = trace \o Query(LEAF_80000006)
                      \o <<LogEv("L2", <<ToWord(l2'.lsize), ToWord(l2'.assoc),
                                         ToWord(l2'.cache)>>)>>
    /\ pc' = "done"
    /\ history' = Append(history, FeatureFlagState)
    /\ UNCHANGED <<hw, flags, pass, regs, therm, bn, amd>>

\* cpu_init is called again on the same processor: the statics keep their
\* values, the locals are fresh.
CpuInitAgain ==
    /\ pc = "done"
    /\ pass < MaxPasses
    /\ pass' = pass + 1
    /\ pc' = "L125"
    /\ regs' = URegs
    /\ therm' = therm0
    /\ bn' = bn0
    /\ amd' = amd0
    /\ l2' = l20
    /\ trace' = <<>>
    /\ UNCHANGED <<hw, flags, history>>

Next ==
    \/ CpuInit_Cpuid1
    \/ CpuInit_FpuThermal
    \/ GetCpuTemperature
    \/ CpuInit_MmxSse2
    \/ CpuInit_Cpuid1Again
    \/ CpuInit_EcxFlags
    \/ CpuInit_ExtMax
    \/ CpuInit_ExtFeatures
    \/ CpuInit_PowerMgmt
    \/ CpuInit_C0
    \/ Brandname_Vendor
    \/ Brandname_ExtMax
    \/ Brandname_Brand
    \/ Brandname_VendorTest
    \/ DoAmd
    \/ L2Cache
    \/ CpuInitAgain

Spec == Init /\ [][Next]_vars

(***************************************************************************)
(* Properties.                                                             *)
(***************************************************************************)
\* The positions in the trace of the cpuid calls with this selector.
CpuidCalls(leaf) ==
    { i \in 1..Len(trace) : trace[i].op = "cpuid" /\ trace[i].w = leaf }

Count(leaf) == Cardinality(CpuidCalls(leaf))

\* The positions in the trace of the LOG calls with this format.
LogCalls(msg) ==
    { i \in 1..Len(trace) : trace[i].op = "LOG" /\ trace[i].msg = msg }

\* How often do_amd has run in this pass: it logs its first line once a run.
AmdInvocations == Cardinality(LogCalls("AMD, 0x8FFFFFFF"))

\* The numeric value of bits lo..hi of w, summed bit by bit.
RECURSIVE Field(_, _, _)
Field(w, lo, hi) ==
    IF hi < lo THEN 0 ELSE Bit(w, lo) + 2 * Field(w, lo + 1, hi)

Hi16(w) == w[3] + 256 * w[4]

Lo16(w) == w[1] + 256 * w[2]

\* a >= b as numbers, on the 16-bit halves.
NumGE(a, b) == Hi16(a) > Hi16(b) \/ (Hi16(a) = Hi16(b) /\ Lo16(a) >= Lo16(b))

\* The names of the flags that are true.
TrueFlags == { f \in DOMAIN FeatureFlagState : FeatureFlagState[f] }

\* The names of the flags whose bit the baseline leaf reports set.
ObservedFlags ==
    LET edx == cpu[LEAF_1].edx
        ecx == cpu[LEAF_1].ecx
    IN  { f \in {"fpu", "thermal_msr", "mmx", "sse2", "avx", "rdrand"} :
            \/ f = "fpu" /\ Bit(edx, 0) = 1
            \/ f = "thermal_msr" /\ Bit(edx, 22) = 1
            \/ f = "mmx" /\ Bit(edx, 23) = 1
            \/ f = "sse2" /\ Bit(edx, 25) = 1
            \/ f = "avx" /\ Bit(ecx, 28) = 1
            \/ f = "rdrand" /\ Bit(ecx, 30) = 1 }

FirstPassDone == pc = "done" /\ pass = 1

C2_MsrAccessAfterCapabilityCheck ==
    \A i \in 1..Len(trace) :
        trace[i].op = "rdmsr" =>
            /\ \E j \in 1..(i - 1) :
                 trace[j].op = "cpuid" /\ trace[j].w = LEAF_80000001
            /\ Bit(cpu[LEAF_80000001].edx, 5) = 1

Auth == <<\h41, \h75, \h74, \h68>>

\* C3: do_amd runs at most once in a pass, only when the first four bytes of
\* the vendor string (the bytes of EBX of leaf 0) are "Auth", and by the end
\* of the pass exactly once when they are.
C3_AmdQueryOnceIffSignature ==
    /\ AmdInvocations <= 1
    /\ AmdInvocations = 1 => cpu[LEAF_0].ebx = Auth
    /\ pc = "done" =>
        /\ SubSeq(bn.manufacturer_string, 1, 4) = cpu[LEAF_0].ebx
        /\ SubSeq(bn.manufacturer_string, 1, 4) = Auth => AmdInvocations = 1
        /\ SubSeq(bn.manufacturer_string, 1, 4) # Auth => AmdInvocations = 0

\* C3 witness: a pass has ended on a processor whose vendor string starts
\* with "Auth" and is not "AuthenticAMD", and do_amd has run once.
C3_Witness ==
    /\ pc = "done"
    /\ SubSeq(bn.manufacturer_string, 1, 4) = Auth
    /\ cpu[LEAF_0].edx = Zero
    /\ AmdInvocations = 1

IsBrandQuery(e) ==
    e.op = "cpuid" /\ e.w \in {LEAF_80000002, LEAF_80000003, LEAF_80000004}

\* The selectors of the brand-leaf queries of this pass, in order.
BrandQueries ==
    LET q == SelectSeq(trace, IsBrandQuery)
    IN  [i \in 1..Len(q) |-> q[i].w]

\* The 48 bytes of the twelve registers of leaves 0x80000002..4.
BrandBytes ==
    LET b2 == cpu[LEAF_80000002]
        b3 == cpu[LEAF_80000003]
        b4 == cpu[LEAF_80000004]
    IN  b2.eax \o b2.ebx \o b2.ecx \o b2.edx \o b3.eax \o b3.ebx \o b3.ecx
            \o b3.edx \o b4.eax \o b4.ebx \o b4.ecx \o b4.edx

\* C4: no brand leaf is ever queried when EAX of leaf 0x80000000 is below
\* 0x80000004; by the end of brandname the three leaves were queried in
\* order and the brand string assembled and logged if EAX >= 0x80000004,
\* and otherwise the 48 bytes are unwritten and nothing was logged.
C4_BrandIffMaxAtLeast80000004 ==
    LET eax == cpu[LEAF_80000000].eax
        atLeast == NumGE(eax, W(\h80, 0, 0, 4))
        logged == LogCalls("0x80000002:0x80000004")
    IN  /\ ~atLeast => BrandQueries = <<>> /\ logged = {}
        /\ pc \in {"L120", "L83", "L67", "done"} =>
            IF atLeast
            THEN /\ BrandQueries = <<LEAF_80000002, LEAF_80000003, LEAF_80000004>>
                 /\ bn.brand_string = BrandBytes \o <<0>>
                 /\ Cardinality(logged) = 1
                 /\ \A i \in logged : trace[i].buf = BrandBytes \o <<0>>
            ELSE /\ \A k \in 1..48 : bn.brand_string[k] = Uninit
                 /\ logged = {}

\* C4 witness: brandname has finished on a processor reporting exactly
\* 0x80000004, with the three leaves queried and the string logged.
C4_Witness ==
    /\ pc = "L120"
    /\ cpu[LEAF_80000000].eax = W(\h80, 0, 0, 4)
    /\ BrandQueries = <<LEAF_80000002, LEAF_80000003, LEAF_80000004>>
    /\ LogCalls("0x80000002:0x80000004") # {}

\* C5: every pass on the same processor leaves the Feature Flag State as the
\* first pass left it.
C5_Idempotent == \A i \in 1..Len(history) : history[i] = history[1]

\* C5 witness: a second pass has ended, with some flag true.
C5_Witness ==
    /\ Len(history) >= 2
    /\ pc = "done"
    /\ TrueFlags # {}

TemperatureRead == therm.temperature # UBuf(8)

\* C6: the temperature is the raw 64-bit value hi:lo without its low three
\* bytes, that is floor(floor(raw / 2^16) / 256), the high half included;
\* hi = 0, lo = 0x25000000 gives 37 and a raw value below 2^24 gives 0.
C6_TemperatureDecode ==
    TemperatureRead =>
        /\ therm.temperature =
              <<msr.lo[4], msr.hi[1], msr.hi[2], msr.hi[3], msr.hi[4], 0, 0, 0>>
        /\ (msr.hi = Zero /\ msr.lo = W(\h25, 0, 0, 0)) =>
              therm.temperature = <<37, 0, 0, 0, 0, 0, 0, 0>>
        /\ (msr.hi = Zero /\ msr.lo[4] = 0) =>
              therm.temperature = <<0, 0, 0, 0, 0, 0, 0, 0>>
        /\ \E i \in LogCalls("Temperature") :
              trace[i].args = <<therm.temperature>>

\* C6 witness: the temperature was read from an MSR with a non-zero high
\* half, which shows in the result.
C6_Witness ==
    /\ TemperatureRead
    /\ msr.hi = W(0, 0, \h01, 0)
    /\ msr.lo = W(\h88, \h44, \h22, \h11)
    /\ therm.temperature = <<\h88, 0, \h01, 0, 0, 0, 0, 0>>

\* C7: l2_cache decodes line size = bits 0-7, associativity = bits 12-14 and
\* cache size = bits 16-31 of ECX of leaf 0x80000006, and logs them;
\* 0x02002040 gives 64, 2 and 512.
C7_L2Decode ==
    l2.lsize # Uninit =>
        LET ecx == cpu[LEAF_80000006].ecx
        IN  /\ l2.lsize = Field(ecx, 0, 7)
            /\ l2.assoc = Field(ecx, 12, 14)
            /\ l2.cache = Field(ecx, 16, 31)
            /\ ecx = W(\h02, 0, \h20, \h40) =>
                 l2.lsize = 64 /\ l2.assoc = 2 /\ l2.cache = 512
            /\ \E i \in LogCalls("L2") :
                 trace[i].args =
                    <<ToWord(Field(ecx, 0, 7)), ToWord(Field(ecx, 12, 14)),
                      ToWord(Field(ecx, 16, 31))>>

\* C7 witness: l2_cache has decoded an ECX whose bits outside the three
\* fields are all set and whose associativity field is 7.
C7_Witness ==
    /\ pc = "done"
    /\ cpu[LEAF_80000006].ecx = W(\hFF, \hFF, \hFF, \hFF)
    /\ l2.lsize = 255
    /\ l2.assoc = 7
    /\ l2.cache = 65535

\* C8 as stated: leaves 0x80000001, 0x80000007 and 0x80000006 are queried
\* only when the maximum reported by leaf 0x80000000 is at least the leaf.
C8_ExtendedQueriesWithinMaximum ==
    \A i \in 1..Len(trace) :
        (trace[i].op = "cpuid"
            /\ trace[i].w \in {LEAF_80000001, LEAF_80000007, LEAF_80000006})
        => NumGE(cpu[LEAF_80000000].eax, trace[i].w)

\* C9 as stated: no selector is passed to cpuid twice in a pass.
C9_NoSelectorQueriedTwice == \A leaf \in Leaves : Count(leaf) <= 1

\* The brand leaves are queried when leaf 0x80000000 reports them.
BrandCount == IF NumGE(cpu[LEAF_80000000].eax, W(\h80, 0, 0, 4)) THEN 1 ELSE 0

\* C9 as amended: no call of cpuid is retried, so a pass queries leaf 1
\* twice from cpu_init and once more from do_amd when it runs, leaf
\* 0x80000000 twice (cpu_init and brandname), and every other selector at
\* most once.
C9_NoRetry ==
    /\ Count(LEAF_1) <= 2 + AmdInvocations
    /\ Count(LEAF_80000000) <= 2
    /\ \A leaf \in Leaves \ {LEAF_1, LEAF_80000000} : Count(leaf) <= 1
    /\ pc = "done" =>
        /\ Count(LEAF_1) = 2 + AmdInvocations
        /\ Count(LEAF_80000000) = 2
        /\ \A leaf \in {LEAF_0, LEAF_80000001, LEAF_80000006, LEAF_80000007,
                        LEAF_C0000000} : Count(leaf) = 1
        /\ \A leaf \in {LEAF_80000002, LEAF_80000003, LEAF_80000004} :
              Count(leaf) = BrandCount
        /\ Count(LEAF_8FFFFFFF) = AmdInvocations

\* C9 witness: a pass on an AMD processor has ended with three queries of
\* leaf 1 and two of leaf 0x80000000.
C9_Witness ==
    /\ pc = "done"
    /\ Count(LEAF_1) = 3
    /\ Count(LEAF_80000000) = 2

\* C10 as stated: every buffer handed to the sink as a string has its last
\* byte written to zero before the call, and the sink reads no byte that was
\* never written.
C10_StringsTerminated ==
    \A i \in 1..Len(trace) :
        (trace[i].op = "LOG" /\ trace[i].buf # <<>>) =>
            /\ trace[i].buf[Len(trace[i].buf)] = 0
            /\ trace[i].read = "ok"

====
